---- MODULE Spec2Model ----
(***************************************************************************)
(* A model of spineplot's numerical helpers and of the group/purity logic  *)
(* of SpinePurity:                                                         *)
(*   - extract_parameter_name      (numu_incl/helpers.py)                  *)
(*   - get_avg_fracunc             (numu_incl/helpers.py)                  *)
(*   - convert_smearing_to_response (numu_incl/helpers.py)                 *)
(*   - SpinePurity.draw, group list (purity.py)                            *)
(*   - the purity fold over cuts    (design specification, section 4.4)    *)
(*                                                                         *)
(* Python strings are sequences of one-character strings, so that          *)
(* str.replace, str.split, str.join, the `in` operator and indexing are    *)
(* computed character by character.  Numbers are integers; a quotient is   *)
(* kept as the pair [num, den] and compared by cross-multiplication, so    *)
(* the arithmetic is exact.                                                *)
(***************************************************************************)
EXTENDS Integers, Sequences, FiniteSets

VARIABLES
    pc,          \* position of the running call
    ret,         \* the outcome of the call: [status, ...]
    \* extract_parameter_name
    key_arg,     \* the key as passed by the caller
    variables,   \* the variables argument
    key,         \* the local key (rebound by the body)
    var_name,    \* the local var_name: [bound, val]
    var_idx,     \* position of the for loop
    \* get_avg_fracunc
    frac_uncs,   \* the frac_uncs argument
    cv,          \* the cv argument
    \* convert_smearing_to_response
    smearing,    \* the smearing argument, smearing[i][j]
    eff,         \* the eff argument
    denom,       \* the local denom
    \* SpinePurity.draw
    categories,  \* the values of self._categories, in the mapping's order
    groups,      \* the local groups
    cat_idx,     \* position of the for loop
    draw_no,     \* which call of draw is running
    last_groups, \* the groups the call before built
    \* the purity fold over the cuts
    events,      \* the sample: each event's group and per-cut flags
    mask,        \* the running survival mask
    cut_k,       \* cuts applied so far
    purity       \* purity[g][k]: [diff, cumu] of group g after cut k

resolveVars == <<key_arg, variables, key, var_name, var_idx>>
avgVars == <<frac_uncs, cv>>
respVars == <<smearing, eff, denom>>
drawVars == <<categories, groups, cat_idx, draw_no, last_groups>>
foldVars == <<events, mask, cut_k, purity>>

vars == <<pc, ret, resolveVars, avgVars, respVars, drawVars, foldVars>>

----------------------------------------------------------------------------
(* Bounds of the checked input space.                                      *)

\* longest key body, in fragments
MaxFrags == 3
\* longest variables list
MaxVars == 2
\* longest frac_uncs and cv
MaxLen == 2
\* fractional uncertainties are 0..MaxFrac
MaxFrac == 2
\* central values are -NegCv..MaxCv
MaxCv == 2
NegCv == 1
\* largest N of an N x N smearing matrix
MaxDim == 2
\* most entries of the category mapping
MaxCats == 3
\* most events of a sample, and the number of cuts
MaxEvents == 3
MaxCuts == 2

----------------------------------------------------------------------------
(* String literals of helpers.py, as character sequences.                  *)

s_csv == <<".", "c", "s", "v">>
s_stat == <<"s", "t", "a", "t">>
s_semi1 == <<";", "1">>
s_reco == <<"r", "e", "c", "o", "_", "l", "e", "a", "d", "i", "n", "g", "_", "m", "u", "o", "n", "_">>
s_true == <<"t", "r", "u", "e", "_", "l", "e", "a", "d", "i", "n", "g", "_", "m", "u", "o", "n", "_">>
s_mom == <<"m", "o", "m", "e", "n", "t", "u", "m", "_", "g", "e", "v">>
s_cos == <<"c", "o", "s", "t", "h", "e", "t", "a">>
s_msigma == <<"m", "u", "l", "t", "i", "s", "i", "g", "m", "a", "_">>
s_msim == <<"m", "u", "l", "t", "i", "s", "i", "m", "_">>
s_nsigma == <<"n", "s", "i", "g", "m", "a", "_">>
s_genie == <<"G", "E", "N", "I", "E", "R", "e", "W", "e", "i", "g", "h", "t", "_", "S", "B", "N", "_", "v", "1", "_">>
s_us == <<"_">>
s_foo == <<"f", "o", "o">>

----------------------------------------------------------------------------
(* Python's string operations.                                             *)

\* `sub in s`
Contains(sub, s) ==
    \E i \in 0..(Len(s) - Len(sub)) : SubSeq(s, i + 1, i + Len(sub)) = sub

\* s.find(sub) + 1 when sub occurs in s: the start of its leftmost occurrence
Find(sub, s) ==
    CHOOSE i \in 1..(Len(s) - Len(sub) + 1) :
        /\ SubSeq(s, i, i + Len(sub) - 1) = sub
        /\ \A j \in 1..(i - 1) : SubSeq(s, j, j + Len(sub) - 1) # sub

\* s.replace(old, new) for a non-empty old: occurrences are taken leftmost
\* first and never overlap; the replacement text is not scanned again
RECURSIVE Replace(_, _, _)
Replace(s, old, new) ==
    IF ~Contains(old, s) THEN s
    ELSE LET i == Find(old, s)
         IN  SubSeq(s, 1, i - 1) \o new
                 \o Replace(SubSeq(s, i + Len(old), Len(s)), old, new)

\* s.split(c) for a one-character separator: ''.split('_') is ['']
RECURSIVE Split(_, _)
Split(s, c) ==
    IF ~Contains(<<c>>, s) THEN <<s>>
    ELSE LET i == Find(<<c>>, s)
         IN  <<SubSeq(s, 1, i - 1)>> \o Split(SubSeq(s, i + 1, Len(s)), c)

\* c.join(tokens)
RECURSIVE Join(_, _)
Join(tokens, c) ==
    IF tokens = <<>> THEN <<>>
    ELSE IF Len(tokens) = 1 THEN tokens[1]
         ELSE tokens[1] \o <<c>> \o Join(Tail(tokens), c)

\* tokens[:-1]
DropLast(tokens) == SubSeq(tokens, 1, Len(tokens) - 1)

----------------------------------------------------------------------------
(* extract_parameter_name(key, variables)                                  *)

\* lines 22-25: the .csv shortening step
ShortenCsv(k) ==
    IF Contains(s_csv, k)
    THEN LET stripped == Replace(k, s_csv, <<>>)
             keep == DropLast(Split(stripped, "_"))
         IN  Join(keep, "_")
    ELSE k

\* lines 28-30: the body of `for var in variables`
ForVarBody_NoBreak(var, k) ==
    [assign |-> Contains(var, k), brk |-> FALSE]

ForVarBody(var, k) ==
    IF Contains(var, k)
    THEN [assign |-> TRUE, brk |-> TRUE]
    ELSE [assign |-> FALSE, brk |-> FALSE]

\* line 33: `'stat' in key`, on the local key
IsStat_Exact(k) == k = s_stat

IsStat(k) == Contains(s_stat, k)

\* lines 37-45: the literal removals, each on the result of the one before
RemoveTokens(k) ==
    LET k1 == Replace(k, s_semi1, <<>>)
        k2 == Replace(k1, s_reco, <<>>)
        k3 == Replace(k2, s_true, <<>>)
        k4 == Replace(k3, s_mom, <<>>)
        k5 == Replace(k4, s_cos, <<>>)
        k6 == Replace(k5, s_msigma, <<>>)
        k7 == Replace(k6, s_msim, <<>>)
        k8 == Replace(k7, s_nsigma, <<>>)
    IN  Replace(k8, s_genie, <<>>)

\* line 47: the evaluation of `key[-1] == '_'`: an IndexError on the empty
\* string, else whether the loop body runs
WhileTest_EmptyIsFalse(k) ==
    IF k = <<>> THEN "exit"
    ELSE IF k[Len(k)] = "_" THEN "body" ELSE "exit"

WhileTest(k) ==
    IF k = <<>> THEN "IndexError"
    ELSE IF k[Len(k)] = "_" THEN "body" ELSE "exit"

\* lines 34 and 49: `return name, var_name`; reading a local that was never
\* assigned raises UnboundLocalError
Return_DefaultVarName(name, vn) ==
    [status |-> "return", name |-> name, var |-> vn.val]

Return(name, vn) ==
    IF vn.bound
    THEN [status |-> "return", name |-> name, var |-> vn.val]
    ELSE [status |-> "UnboundLocalError", name |-> <<>>, var |-> <<>>]

NoRet == [status |-> "running", name |-> <<>>, var |-> <<>>]
Unbound == [bound |-> FALSE, val |-> <<>>]

\* The keys the calls are made with: a body of at most MaxFrags fragments,
\* with or without the .csv extension, and the keys named in the
\* documentation.
Fragments == {s_stat, s_us, s_cos, s_foo, s_semi1, s_msigma, s_csv}
Exts == {<<>>, s_csv}

RECURSIVE Bodies(_)
Bodies(n) ==
    IF n = 0 THEN {<<>>}
    ELSE LET shorter == Bodies(n - 1)
         IN  shorter \cup {b \o f : b \in shorter, f \in Fragments}

ExampleKeys ==
    { s_genie \o s_msigma \o s_foo \o s_us \o s_mom \o s_semi1,
      s_stat \o s_us \o s_cos \o s_us \o <<"c", "v">> \o s_csv,
      s_reco \o s_mom \o s_us \o s_msim \o s_foo \o s_us \o <<"c", "v">> \o s_csv,
      s_true \o s_cos \o s_us \o s_nsigma \o s_foo,
      s_foo \o s_csv \o s_us \o s_cos \o s_us \o s_mom }

Keys == {b \o e : b \in Bodies(MaxFrags), e \in Exts} \cup ExampleKeys

VarNames == {s_cos, s_mom, s_foo}

RECURSIVE VarLists(_)
VarLists(n) ==
    IF n = 0 THEN {<<>>}
    ELSE LET shorter == VarLists(n - 1)
         IN  shorter \cup {Append(l, v) : l \in shorter, v \in VarNames}

\* A component no call is running in.
IdleResolve ==
    /\ key_arg = <<>> /\ variables = <<>> /\ key = <<>>
    /\ var_name = Unbound /\ var_idx = 1
IdleAvg == frac_uncs = <<>> /\ cv = <<>>
IdleResp == smearing = <<>> /\ eff = <<>> /\ denom = <<>>
IdleDraw ==
    /\ categories = <<>> /\ groups = <<>> /\ cat_idx = 1
    /\ draw_no = 0 /\ last_groups = <<>>
IdleFold == events = <<>> /\ mask = <<>> /\ cut_k = 0 /\ purity = <<>>

InitResolve ==
    /\ key_arg \in Keys
    /\ variables \in VarLists(MaxVars)
    /\ key = key_arg
    /\ var_name = Unbound
    /\ var_idx = 1
    /\ pc = "l22"
    /\ ret = NoRet
    /\ IdleAvg /\ IdleResp /\ IdleDraw /\ IdleFold

\* lines 22-25
CsvStep ==
    /\ pc = "l22"
    /\ key' = ShortenCsv(key)
    /\ pc' = "l27"
    /\ UNCHANGED <<key_arg, variables, var_name, var_idx, ret>>
    /\ UNCHANGED <<avgVars, respVars, drawVars, foldVars>>

\* lines 27-30: one iteration of the for loop
ForVar ==
    /\ pc = "l27"
    /\ var_idx <= Len(variables)
    /\ LET b == ForVarBody(variables[var_idx], key)
       IN  /\ var_name' = IF b.assign
                          THEN [bound |-> TRUE, val |-> variables[var_idx]]
                          ELSE var_name
           /\ pc' = IF b.brk THEN "l33" ELSE "l27"
    /\ var_idx' = var_idx + 1
    /\ UNCHANGED <<key_arg, variables, key, ret>>
    /\ UNCHANGED <<avgVars, respVars, drawVars, foldVars>>

\* line 27: the list is exhausted
ForVarEnd ==
    /\ pc = "l27"
    /\ var_idx > Len(variables)
    /\ pc' = "l33"
    /\ UNCHANGED <<key_arg, variables, key, var_name, var_idx, ret>>
    /\ UNCHANGED <<avgVars, respVars, drawVars, foldVars>>

\* lines 33-34
StatReturn ==
    /\ pc = "l33"
    /\ IsStat(key)
    /\ ret' = Return(s_stat, var_name)
    /\ pc' = "done"
    /\ UNCHANGED <<key_arg, variables, key, var_name, var_idx>>
    /\ UNCHANGED <<avgVars, respVars, drawVars, foldVars>>

\* lines 33, 37-45
RemoveStep ==
    /\ pc = "l33"
    /\ ~IsStat(key)
    /\ key' = RemoveTokens(key)
    /\ pc' = "l47"
    /\ UNCHANGED <<key_arg, variables, var_name, var_idx, ret>>
    /\ UNCHANGED <<avgVars, respVars, drawVars, foldVars>>

\* lines 47-48: one evaluation of the while condition, and the body
StripStep ==
    /\ pc = "l47"
    /\ WhileTest(key) = "body"
    /\ key' = SubSeq(key, 1, Len(key) - 1)
    /\ UNCHANGED <<pc, key_arg, variables, var_name, var_idx, ret>>
    /\ UNCHANGED <<avgVars, respVars, drawVars, foldVars>>

\* line 47 on the empty string
StripIndexError ==
    /\ pc = "l47"
    /\ WhileTest(key) = "IndexError"
    /\ ret' = [status |-> "IndexError", name |-> <<>>, var |-> <<>>]
    /\ pc' = "done"
    /\ UNCHANGED <<key_arg, variables, key, var_name, var_idx>>
    /\ UNCHANGED <<avgVars, respVars, drawVars, foldVars>>

\* lines 47, 49
StripReturn ==
    /\ pc = "l47"
    /\ WhileTest(key) = "exit"
    /\ ret' = Return(key, var_name)
    /\ pc' = "done"
    /\ UNCHANGED <<key_arg, variables, key, var_name, var_idx>>
    /\ UNCHANGED <<avgVars, respVars, drawVars, foldVars>>

NextResolve ==
    \/ CsvStep
    \/ ForVar
    \/ ForVarEnd
    \/ StatReturn
    \/ RemoveStep
    \/ StripStep
    \/ StripIndexError
    \/ StripReturn

SpecResolve == InitResolve /\ [][NextResolve]_vars

----------------------------------------------------------------------------
(* Properties of extract_parameter_name.                                   *)

LastIndexOf(s, c) ==
    CHOOSE i \in 1..Len(s) : s[i] = c /\ \A j \in (i + 1)..Len(s) : s[j] # c

\* The key after the .csv shortening step, stated from the argument: without
\* .csv the key itself; else the text with every .csv taken out, up to its
\* last underscore (nothing when it has none).
Shortened ==
    IF Contains(s_csv, key_arg)
    THEN LET r == Replace(key_arg, s_csv, <<>>)
         IN  IF Contains(s_us, r)
             THEN SubSeq(r, 1, LastIndexOf(r, "_") - 1)
             ELSE <<>>
    ELSE key_arg

Matches(i) == Contains(variables[i], Shortened)
SomeMatch == \E i \in 1..Len(variables) : Matches(i)

\* C4 as stated: 'stat' anywhere in the key as passed by the caller, and some
\* variable matching, gives the return ('stat', variable_name) with the key
\* left as the shortening step made it.
C4_AsStated ==
    (pc = "done" /\ Contains(s_stat, key_arg) /\ SomeMatch)
        => /\ ret = [status |-> "return", name |-> s_stat, var |-> var_name.val]
           /\ key = Shortened

\* C4, amended: 'stat' anywhere in the key after the .csv shortening step, and
\* some variable matching, gives the return ('stat', variable_name); none of
\* the token removals and no underscore stripping has touched the key.
C4_StatOnShortenedKey ==
    (pc = "done" /\ Contains(s_stat, Shortened) /\ SomeMatch)
        => /\ ret = [status |-> "return", name |-> s_stat, var |-> var_name.val]
           /\ key = Shortened

C4_Witness ==
    /\ pc = "done"
    /\ Contains(s_csv, key_arg)
    /\ Contains(s_stat, Shortened)
    /\ SomeMatch
    /\ ret.status = "return"

\* C5: when no entry of variables (the empty list included) occurs in the key
\* after the .csv shortening step, the call never returns a pair: it ends in
\* an error, on the stat path and on the other path alike.
C5_NoMatchNeverReturns ==
    (pc = "done" /\ ~SomeMatch)
        => ret.status \in {"UnboundLocalError", "IndexError"}

C5_Witness ==
    /\ pc = "done"
    /\ variables # <<>>
    /\ ~SomeMatch
    /\ IsStat(key)
    /\ ret.status = "UnboundLocalError"

\* C9: a returned variable_name is the entry of variables of smallest index
\* among those occurring in the key after the .csv shortening step.
C9_FirstMatchInOrder ==
    (pc = "done" /\ ret.status = "return")
        => \E i \in 1..Len(variables) :
              /\ ret.var = variables[i]
              /\ Matches(i)
              /\ \A j \in 1..(i - 1) : ~Matches(j)

\* two different entries match, and another occurs only in the key as passed
C9_Witness ==
    /\ pc = "done"
    /\ ret.status = "return"
    /\ \E i, j \in 1..Len(variables) :
          i < j /\ Matches(i) /\ Matches(j) /\ variables[i] # variables[j]
    /\ \E v \in VarNames : Contains(v, key_arg) /\ ~Contains(v, Shortened)

\* the outcome of a call that left line 47
C10_Outcome ==
    /\ ret.status = "return"
          => ret.name # <<>> /\ ret.name[Len(ret.name)] # "_"
    /\ (key = <<>>) <=> (ret.status = "IndexError")

\* A bound on the steps a call still has to take: the position in the body,
\* then the entries left to scan or the characters left to strip.
StepsLeft ==
    CASE pc = "l22" -> 4 + Len(key) + Len(variables)
      [] pc = "l27" -> 3 + Len(key) + (Len(variables) + 1 - var_idx)
      [] pc = "l33" -> 2 + Len(key)
      [] pc = "l47" -> 1 + Len(key)
      [] OTHER -> 0

\* C10: off the stat path (the call has reached line 47) a returned name is
\* non-empty and does not end with an underscore; the call ends in an
\* IndexError exactly when the removals and the stripping leave the empty
\* string; and the stripping loop ends: every step of a call, each stripped
\* character included, lowers the bound StepsLeft, which is never negative.
C10_NameNotEmptyAndEnds ==
    [][/\ (pc = "l47" /\ pc' = "done") => C10_Outcome'
       /\ StepsLeft' < StepsLeft
       /\ StepsLeft' >= 0]_vars

\* an underscore was stripped and nothing was left
C10_Witness ==
    /\ pc = "done"
    /\ ret.status = "IndexError"
    /\ var_name.bound
    /\ RemoveTokens(Shortened) # <<>>

----------------------------------------------------------------------------
(* get_avg_fracunc(frac_uncs, cv)                                          *)

\* a quotient, kept exact
Quot(n, d) == [num |-> n, den |-> d]

RECURSIVE SumSeq(_)
SumSeq(a) == IF a = <<>> THEN 0 ELSE Head(a) + SumSeq(Tail(a))

\* line 68: the asserted condition
LengthsAgree_Prefix(f, c) == Len(f) <= Len(c)

LengthsAgree(f, c) == Len(f) = Len(c)

\* line 68: the AssertionError and its message, which names both lengths
AssertionError(f, c) ==
    [status |-> "AssertionError", frac_len |-> Len(f), cv_len |-> Len(c)]

\* line 69: np.average(a, weights=w) on equal lengths: the weights' sum is
\* the divisor and must not be zero
np_average_Unweighted(a, w) ==
    IF Len(a) = 0
    THEN [status |-> "ZeroDivisionError"]
    ELSE [status |-> "return",
          value |-> Quot(SumSeq([i \in 1..Len(a) |-> a[i] * w[i]]), Len(a))]

np_average(a, w) ==
    IF SumSeq(w) = 0
    THEN [status |-> "ZeroDivisionError"]
    ELSE [status |-> "return",
          value |-> Quot(SumSeq([i \in 1..Len(a) |-> a[i] * w[i]]), SumSeq(w))]

RECURSIVE SeqsUpTo(_, _)
SeqsUpTo(S, n) ==
    IF n = 0 THEN {<<>>}
    ELSE LET shorter == SeqsUpTo(S, n - 1)
         IN  shorter \cup {Append(a, x) : a \in shorter, x \in S}

FracVals == 0..MaxFrac
CvVals == (0 - NegCv)..MaxCv

InitAvg ==
    /\ frac_uncs \in SeqsUpTo(FracVals, MaxLen)
    /\ cv \in SeqsUpTo(CvVals, MaxLen)
    /\ pc = "l68"
    /\ ret = NoRet
    /\ IdleResolve /\ IdleResp /\ IdleDraw /\ IdleFold

\* line 68, the assertion holds
AssertPass ==
    /\ pc = "l68"
    /\ LengthsAgree(frac_uncs, cv)
    /\ pc' = "l69"
    /\ UNCHANGED <<ret, resolveVars, avgVars, respVars, drawVars, foldVars>>

\* line 68, the assertion fails
AssertFail ==
    /\ pc = "l68"
    /\ ~LengthsAgree(frac_uncs, cv)
    /\ ret' = AssertionError(frac_uncs, cv)
    /\ pc' = "done"
    /\ UNCHANGED <<resolveVars, avgVars, respVars, drawVars, foldVars>>

\* line 69
Average ==
    /\ pc = "l69"
    /\ ret' = np_average(frac_uncs, cv)
    /\ pc' = "done"
    /\ UNCHANGED <<resolveVars, avgVars, respVars, drawVars, foldVars>>

NextAvg == AssertPass \/ AssertFail \/ Average

SpecAvg == InitAvg /\ [][NextAvg]_vars

----------------------------------------------------------------------------
(* Properties of get_avg_fracunc.                                          *)

MinOf(a) == CHOOSE x \in {a[i] : i \in 1..Len(a)} : \A i \in 1..Len(a) : x <= a[i]
MaxOf(a) == CHOOSE x \in {a[i] : i \in 1..Len(a)} : \A i \in 1..Len(a) : x >= a[i]

\* value lies in [min(frac_uncs), max(frac_uncs)], for a positive divisor
InRange(value) ==
    /\ value.den > 0
    /\ MinOf(frac_uncs) * value.den <= value.num
    /\ value.num <= MaxOf(frac_uncs) * value.den

\* C3 as stated: equal lengths and sum(cv) > 0 put the returned average
\* between min(frac_uncs) and max(frac_uncs), whatever the sign of each cv[i].
C3_AsStated ==
    (pc = "done" /\ Len(frac_uncs) = Len(cv) /\ SumSeq(cv) > 0)
        => ret.status = "return" /\ InRange(ret.value)

\* C3, amended: equal lengths, sum(cv) > 0 and every cv[i] >= 0 put the
\* returned average between min(frac_uncs) and max(frac_uncs).
C3_AverageWithinRange ==
    (/\ pc = "done"
     /\ Len(frac_uncs) = Len(cv)
     /\ SumSeq(cv) > 0
     /\ \A i \in 1..Len(cv) : cv[i] >= 0)
        => ret.status = "return" /\ InRange(ret.value)

\* unequal weights and unequal uncertainties, one weight zero
C3_Witness ==
    /\ pc = "done"
    /\ ret.status = "return"
    /\ Len(cv) = 2 /\ Len(frac_uncs) = 2
    /\ cv[1] = 0 /\ cv[2] > 0
    /\ frac_uncs[1] # frac_uncs[2]

\* C8: unequal lengths end in the AssertionError that reports both lengths,
\* and no value is returned; equal lengths never end in it.
C8_LengthMismatchAsserts ==
    pc = "done"
        => IF Len(frac_uncs) # Len(cv)
           THEN ret = [status |-> "AssertionError",
                       frac_len |-> Len(frac_uncs), cv_len |-> Len(cv)]
           ELSE ret.status # "AssertionError"

C8_Witness ==
    /\ pc = "done"
    /\ Len(frac_uncs) < Len(cv)
    /\ Len(frac_uncs) > 0
    /\ ret.status = "AssertionError"

----------------------------------------------------------------------------
(* convert_smearing_to_response(smearing, eff)                             *)
(* A matrix is a sequence of rows, smearing[i][j]; axis 0 runs over i.     *)

\* the shapes N x N of the calls
Dims == 1..MaxDim

Shape(m) == Len(m)

\* line 88: np.sum(m, axis=0), the sum over the rows i of each column j
np_sum_axis0(m) ==
    [j \in 1..Shape(m) |-> SumSeq([i \in 1..Shape(m) |-> m[i][j]])]

\* line 89: m * v, the vector broadcast along the last axis: column j of m
\* is scaled by v[j]
np_multiply_ByRow(m, v) ==
    [i \in 1..Shape(m) |-> [j \in 1..Shape(m) |-> m[i][j] * v[i]]]

np_multiply(m, v) ==
    [i \in 1..Shape(m) |-> [j \in 1..Shape(m) |-> m[i][j] * v[j]]]

\* line 89: denom != 0
NonZero_Always(d) == [j \in 1..Len(d) |-> TRUE]

NonZero(d) == [j \in 1..Len(d) |-> d[j] # 0]

\* line 89: np.zeros_like(m, dtype=float)
np_zeros_like(m) ==
    [i \in 1..Shape(m) |-> [j \in 1..Shape(m) |-> Quot(0, 1)]]

\* line 89: np.divide(x, d, out=out, where=where): d and where are broadcast
\* along the last axis; an entry where the mask is false keeps out's value
np_divide(x, d, out, where) ==
    [i \in 1..Shape(x) |->
        [j \in 1..Shape(x) |->
            IF where[j] THEN Quot(x[i][j], d[j]) ELSE out[i][j]]]

\* the entries of a smearing matrix (counts, and negative entries so that a
\* column of non-zero entries can sum to zero) and of an efficiency vector
SmearVals == {0 - 1, 0, 1}
EffVals == {0, 1, 2}

InitResp ==
    /\ \E n \in Dims :
          /\ smearing \in [1..n -> [1..n -> SmearVals]]
          /\ eff \in [1..n -> EffVals]
    /\ denom = <<>>
    /\ pc = "l88"
    /\ ret = NoRet
    /\ IdleResolve /\ IdleAvg /\ IdleDraw /\ IdleFold

\* line 88
ColumnSums ==
    /\ pc = "l88"
    /\ denom' = np_sum_axis0(smearing)
    /\ pc' = "l89"
    /\ UNCHANGED <<ret, smearing, eff>>
    /\ UNCHANGED <<resolveVars, avgVars, drawVars, foldVars>>

\* lines 89-90
DivideAndReturn ==
    /\ pc = "l89"
    /\ ret' = [status |-> "return",
               value |-> np_divide(np_multiply(smearing, eff), denom,
                                   np_zeros_like(smearing), NonZero(denom))]
    /\ pc' = "done"
    /\ UNCHANGED <<smearing, eff, denom>>
    /\ UNCHANGED <<resolveVars, avgVars, drawVars, foldVars>>

NextResp == ColumnSums \/ DivideAndReturn

SpecResp == InitResp /\ [][NextResp]_vars

----------------------------------------------------------------------------
(* Properties of convert_smearing_to_response.                             *)

\* S_j: the sum over i of the unscaled smearing[i][j]
RECURSIVE ColumnTotal(_, _)
ColumnTotal(j, n) ==
    IF n = 0 THEN 0 ELSE smearing[n][j] + ColumnTotal(j, n - 1)

S(j) == ColumnTotal(j, Len(smearing))

\* C1: in every column j with S_j # 0, entry [i][j] of the returned matrix
\* is smearing[i][j] * eff[j] / S_j.
C1_ResponseEntries ==
    pc = "done"
        => /\ ret.status = "return"
           /\ \A i, j \in 1..Len(smearing) :
                 S(j) # 0
                     => /\ ret.value[i][j].den # 0
                        /\ ret.value[i][j].num * S(j)
                             = smearing[i][j] * eff[j] * ret.value[i][j].den

\* a 2 x 2 call in which rows and columns, and the two efficiencies, differ
C1_Witness ==
    /\ pc = "done"
    /\ Len(smearing) = 2
    /\ S(1) # 0 /\ S(2) # 0 /\ S(1) # S(2)
    /\ eff[1] # eff[2] /\ eff[1] # 0 /\ eff[2] # 0
    /\ smearing[1][2] # smearing[2][1]
    /\ smearing[1][2] # 0 /\ smearing[2][1] # 0

\* C2: every column whose sum is exactly 0 comes back all zeros, and the
\* call returns, whatever the column's entries and its efficiency.
C2_ZeroColumn ==
    pc = "done"
        => /\ ret.status = "return"
           /\ \A i, j \in 1..Len(smearing) :
                 S(j) = 0
                     => ret.value[i][j].num = 0 /\ ret.value[i][j].den # 0

\* a column of non-zero entries that cancel, with a non-zero efficiency
C2_Witness ==
    /\ pc = "done"
    /\ ret.status = "return"
    /\ \E j \in 1..Len(smearing) :
          /\ S(j) = 0
          /\ eff[j] # 0
          /\ \E i \in 1..Len(smearing) : smearing[i][j] # 0

----------------------------------------------------------------------------
(* SpinePurity.draw: the list of groups (lines 115-118)                    *)

Elements(l) == {l[i] : i \in 1..Len(l)}

\* lines 117-118: the body of `for category in self._categories.values()`
AppendAlways(g, category) == Append(g, category)

AppendIfNew(g, category) ==
    IF category \notin Elements(g) THEN Append(g, category) ELSE g

GroupLabels == {"numu", "nue", "cosmic"}

InitDraw ==
    /\ categories \in SeqsUpTo(GroupLabels, MaxCats)
    /\ groups = <<>>
    /\ cat_idx = 1
    /\ draw_no = 1
    /\ last_groups = <<>>
    /\ pc = "l115"
    /\ ret = NoRet
    /\ IdleResolve /\ IdleAvg /\ IdleResp /\ IdleFold

\* line 115
NewGroups ==
    /\ pc = "l115"
    /\ groups' = <<>>
    /\ cat_idx' = 1
    /\ pc' = "l116"
    /\ UNCHANGED <<ret, categories, draw_no, last_groups>>
    /\ UNCHANGED <<resolveVars, avgVars, respVars, foldVars>>

\* lines 116-118: one iteration
ForCategory ==
    /\ pc = "l116"
    /\ cat_idx <= Len(categories)
    /\ groups' = AppendIfNew(groups, categories[cat_idx])
    /\ cat_idx' = cat_idx + 1
    /\ UNCHANGED <<pc, ret, categories, draw_no, last_groups>>
    /\ UNCHANGED <<resolveVars, avgVars, respVars, foldVars>>

\* line 116: the values are exhausted; the list is built
ForCategoryEnd ==
    /\ pc = "l116"
    /\ cat_idx > Len(categories)
    /\ pc' = "l120"
    /\ UNCHANGED <<ret, drawVars>>
    /\ UNCHANGED <<resolveVars, avgVars, respVars, foldVars>>

\* draw is called again on the same artist
DrawAgain ==
    /\ pc = "l120"
    /\ draw_no = 1
    /\ last_groups' = groups
    /\ draw_no' = 2
    /\ pc' = "l115"
    /\ UNCHANGED <<ret, categories, groups, cat_idx>>
    /\ UNCHANGED <<resolveVars, avgVars, respVars, foldVars>>

NextDraw == NewGroups \/ ForCategory \/ ForCategoryEnd \/ DrawAgain

SpecDraw == InitDraw /\ [][NextDraw]_vars

----------------------------------------------------------------------------
(* Properties of the group list.                                           *)

FirstAt(l, x) == CHOOSE i \in 1..Len(l) : l[i] = x /\ \A j \in 1..(i - 1) : l[j] # x

\* every distinct value exactly once, in the order of first occurrence
GroupsBuilt ==
    /\ Elements(groups) = Elements(categories)
    /\ \A a, b \in 1..Len(groups) : a # b => groups[a] # groups[b]
    /\ \A a, b \in 1..Len(groups) :
          a < b => FirstAt(categories, groups[a]) < FirstAt(categories, groups[b])

\* C6: the built list holds every distinct value of the mapping exactly
\* once, ordered by first occurrence; the second build on the same mapping
\* gives the list of the first; no step changes the mapping.
C6_GroupsFirstSeenOrder ==
    [][/\ categories' = categories
       /\ pc' = "l120" => GroupsBuilt'
       /\ (pc' = "l120" /\ draw_no' = 2) => groups' = last_groups']_vars

\* a second build over a mapping with a repeated value and two groups
C6_Witness ==
    /\ pc = "l120"
    /\ draw_no = 2
    /\ Len(groups) = 2
    /\ Len(categories) = 3
    /\ categories[1] = categories[3]

----------------------------------------------------------------------------
(* The purity fold over the cuts (design specification, sections 3, 4.4).  *)
(* The survival mask starts all true; cut k replaces it by mask AND        *)
(* passes-cut-k.  After cut k, for each group: cumulative purity is the    *)
(* in-group survivors over all survivors; differential purity is the       *)
(* in-group survivors over the survivors of the cuts before k (all events  *)
(* for the first cut).  A zero denominator gives the sentinel Undefined.   *)

Cuts == 1..MaxCuts
FoldGroups == {"numu", "cosmic"}
EventKinds == [group : FoldGroups, passes : [Cuts -> BOOLEAN]]

Undefined == Quot(0, 0)

Ratio(n, d) == IF d = 0 THEN Undefined ELSE Quot(n, d)

CountAll(m) == Cardinality({e \in 1..Len(events) : m[e]})
CountIn(g, m) == Cardinality({e \in 1..Len(events) : m[e] /\ events[e].group = g})

\* new survival mask = previous mask AND (event passes cut k)
CutMask(m, k) == [e \in 1..Len(events) |-> m[e] /\ events[e].passes[k]]

\* the trials of the differential purity: the previous surviving set
DifferentialTrials_AllEvents(prev, all) == all

DifferentialTrials(prev, all) == prev

PurityAt(g, prev_mask, new_mask) ==
    [diff |-> Ratio(CountIn(g, new_mask),
                    DifferentialTrials(CountAll(prev_mask), Len(events))),
     cumu |-> Ratio(CountIn(g, new_mask), CountAll(new_mask))]

InitFold ==
    /\ events \in SeqsUpTo(EventKinds, MaxEvents)
    /\ mask = [e \in 1..Len(events) |-> TRUE]
    /\ cut_k = 0
    /\ purity = <<>>
    /\ pc = "fold"
    /\ ret = NoRet
    /\ IdleResolve /\ IdleAvg /\ IdleResp /\ IdleDraw

\* the transition of one cut, in CutMap order
ApplyCut ==
    /\ pc = "fold"
    /\ cut_k < MaxCuts
    /\ LET k == cut_k + 1
           new_mask == CutMask(mask, k)
       IN  /\ mask' = new_mask
           /\ purity' = Append(purity,
                               [g \in FoldGroups |-> PurityAt(g, mask, new_mask)])
           /\ cut_k' = k
    /\ UNCHANGED <<pc, ret, events>>
    /\ UNCHANGED <<resolveVars, avgVars, respVars, drawVars>>

\* the terminal state: after the last cut
FoldEnd ==
    /\ pc = "fold"
    /\ cut_k = MaxCuts
    /\ pc' = "done"
    /\ UNCHANGED <<ret, foldVars>>
    /\ UNCHANGED <<resolveVars, avgVars, respVars, drawVars>>

NextFold == ApplyCut \/ FoldEnd

SpecFold == InitFold /\ [][NextFold]_vars

----------------------------------------------------------------------------
(* Properties of the purity fold.                                          *)

Survives(e, k) == \A c \in 1..k : events[e].passes[c]

\* cut k takes no event out of the set that survived the cuts before it
RemovesNone(k) ==
    \A e \in 1..Len(events) : Survives(e, k - 1) => events[e].passes[k]

SamePurity(a, b) ==
    IF a.den = 0 \/ b.den = 0
    THEN a.den = 0 /\ b.den = 0
    ELSE a.num * b.den = b.num * a.den

\* C7: at every cut after the first that removes no event from the previous
\* surviving set, each group's cumulative purity is that of the cut before,
\* and its differential purity is the cumulative purity of the cut before.
C7_CutRemovingNothing ==
    \A k \in 2..Len(purity) : \A g \in FoldGroups :
        RemovesNone(k)
            => /\ SamePurity(purity[k][g].cumu, purity[k - 1][g].cumu)
               /\ SamePurity(purity[k][g].diff, purity[k - 1][g].cumu)

\* the first cut removed an event, the second none, and both groups survive
C7_Witness ==
    /\ pc = "done"
    /\ RemovesNone(2)
    /\ ~RemovesNone(1)
    /\ \A g \in FoldGroups : CountIn(g, mask) > 0

====
